---- MODULE Spec2Model ----
(***************************************************************************)
(* Model of GeometryGoInterfaces.go: the Display raster surface and the    *)
(* Rectangle, Triangle and Circle fills drawn on it.                        *)
(***************************************************************************)
EXTENDS Integers, Sequences, FiniteSets, TLC

VARIABLES
  maxX, maxY, matrix, \* the Display's fields
  call,               \* the last call made and its arguments
  ret,                \* the error it returned
  got,                \* the colour getPixel returned
  old,                \* the Display as it was when that call was made
  issued,             \* the drawPixel calls a draw issued, in order
  file,               \* the lines screenShot wrote
  calls               \* calls made since the grid was initialized

vars == <<maxX, maxY, matrix, call, ret, got, old, issued, file, calls>>

(* ------------------------------ bounds --------------------------------- *)

\* Largest width/height passed to initialize in Spec.
MaxDim == 3
\* Number of calls that may write the grid after it is initialized, in Spec.
MaxCalls == 1
\* Largest vertex coordinate of the triangles drawn in Spec.
MaxTri == 1
\* Width and height of the Display, and largest coordinate, in FillSpec.
MaxFill == 4

(* ------------------------------ colours -------------------------------- *)

\* var colorMap: the registry, colour name -> RGB triplet.
colorMap ==
  [c \in {"red", "green", "blue", "yellow", "orange", "purple", "brown",
          "black", "white"} |->
     CASE c = "red"    -> <<255, 0, 0>>
       [] c = "green"  -> <<0, 255, 0>>
       [] c = "blue"   -> <<0, 0, 255>>
       [] c = "yellow" -> <<255, 255, 0>>
       [] c = "orange" -> <<255, 164, 0>>
       [] c = "purple" -> <<128, 0, 128>>
       [] c = "brown"  -> <<165, 42, 42>>
       [] c = "black"  -> <<0, 0, 0>>
       [] c = "white"  -> <<255, 255, 255>>]

\* func colorUnknown: true if the colour is not in the map.
colorUnknown(c) == c \notin DOMAIN colorMap

\* The error values a call returns; "nil" is success, "panic" a run-time panic
\* (index out of range), "ioErr" the error of os.Create.
outOfBoundsErr == "outOfBoundsErr"
colorUnknownErr == "colorUnknownErr"

Pt(x, y) == [x |-> x, y |-> y]

(* --------------------------- float64 arithmetic ------------------------ *)
\* interpolate accumulates its samples in float64.  A float64 of magnitude
\* below 2^30 whose unit in the last place is at least 2^-60 is kept exactly
\* as sign and i + hi/2^30 + lo/2^60; every operation rounds its exact result
\* to 53 significant bits, ties to even, as IEEE-754 does.
Two15 == 32768
Two30 == 1073741824

RECURSIVE Pow2(_)
Pow2(k) == IF k <= 0 THEN 1 ELSE 2 * Pow2(k - 1)

RECURSIVE Log2(_)
Log2(n) == IF n <= 1 THEN 0 ELSE 1 + Log2(n \div 2)

\* Number of leading zero bits of hi seen as a 30-bit field (hi > 0).
LeadZeros(hi) == 29 - Log2(hi)

\* Unit in the last place, in units of 2^-60, of a value i + hi/2^30 + ...
Ulp(i, hi) ==
  IF i >= 1 THEN Pow2(8 + Log2(i))
  ELSE IF hi = 0 THEN 1
  ELSE Pow2(7 - LeadZeros(hi))

\* Round the magnitude i + hi/2^30 + lo/2^60 (+ a nonzero tail if sticky)
\* to 53 significant bits, ties to even.
Round53(neg, i, hi, lo, sticky) ==
  LET U    == Ulp(i, hi)
      r    == lo % U
      base == lo - r
      half == U \div 2
      up   == /\ U > 1
              /\ \/ r > half
                 \/ r = half /\ sticky
                 \/ r = half /\ ~sticky /\ (base \div U) % 2 = 1
      lo1  == IF up THEN base + U ELSE base
      lo2  == lo1 % Two30
      hi1  == hi + (lo1 \div Two30)
      hi2  == hi1 % Two30
      i2   == i + (hi1 \div Two30)
  IN  [neg |-> neg /\ (i2 # 0 \/ hi2 # 0 \/ lo2 # 0), i |-> i2, hi |-> hi2, lo |-> lo2]

\* float64(n) for an int n.
FromInt(n) == [neg |-> n < 0, i |-> IF n < 0 THEN -n ELSE n, hi |-> 0, lo |-> 0]

\* |a| < |b|
MagLess(a, b) ==
  \/ a.i < b.i
  \/ a.i = b.i /\ a.hi < b.hi
  \/ a.i = b.i /\ a.hi = b.hi /\ a.lo < b.lo

\* |a| - |b| for |a| >= |b|, exact, carrying sign neg.
MagSub(neg, a, b) ==
  LET lo0 == a.lo - b.lo
      bl  == IF lo0 < 0 THEN 1 ELSE 0
      hi0 == a.hi - b.hi - bl
      bh  == IF hi0 < 0 THEN 1 ELSE 0
  IN  Round53(neg, a.i - b.i - bh, hi0 + bh * Two30, lo0 + bl * Two30, FALSE)

\* a + b in float64.
FAdd(a, b) ==
  IF a.neg = b.neg
  THEN LET lo0 == a.lo + b.lo
           hi0 == a.hi + b.hi + (lo0 \div Two30)
       IN  Round53(a.neg, a.i + b.i + (hi0 \div Two30), hi0 % Two30, lo0 % Two30, FALSE)
  ELSE IF MagLess(a, b) THEN MagSub(b.neg, b, a) ELSE MagSub(a.neg, a, b)

\* float64(num) / float64(den) for den > 0: long division, 15 bits a step.
FDiv(num, den) ==
  LET n  == IF num < 0 THEN -num ELSE num
      r0 == n % den
      q1 == (r0 * Two15) \div den
      r1 == (r0 * Two15) % den
      q2 == (r1 * Two15) \div den
      r2 == (r1 * Two15) % den
      q3 == (r2 * Two15) \div den
      r3 == (r2 * Two15) % den
      q4 == (r3 * Two15) \div den
      r4 == (r3 * Two15) % den
  IN  Round53(num < 0, n \div den, q1 * Two15 + q2, q3 * Two15 + q4, r4 # 0)

\* int(d): conversion of a float64 to int truncates toward zero.
Trunc(d) == IF d.neg THEN -d.i ELSE d.i

(* ------------------------------ interpolate ---------------------------- *)

\* The loop of interpolate: appends int(d), then d += a, n - i times.  The
\* sum made after the last append is never read, so it is not computed.
RECURSIVE interpolateLoop(_, _, _, _, _)
interpolateLoop(out, d, a, i, n) ==
  IF i >= n THEN out
  ELSE interpolateLoop(Append(out, Trunc(d)),
                       IF i + 1 < n THEN FAdd(d, a) ELSE d, a, i + 1, n)

\* Faulty variant of interpolate: one sample too few (n = l1 - l0).
interpolateShort(l0, d0, l1, d1) ==
  LET n == l1 - l0
      a == IF l1 > l0 THEN FDiv(d1 - d0, l1 - l0) ELSE FromInt(0)
  IN  interpolateLoop(<<>>, FromInt(d0), a, 0, n)

\* func interpolate(l0, d0, l1, d1).  With l1 = l0 the slope is +Inf, -Inf or
\* NaN (float64 division does not panic); the one sample int(d0) is appended
\* before the slope is ever added.
interpolate(l0, d0, l1, d1) ==
  LET n == l1 - l0 + 1
      a == IF l1 > l0 THEN FDiv(d1 - d0, l1 - l0) ELSE FromInt(0) \* never added
  IN  interpolateLoop(<<>>, FromInt(d0), a, 0, n)

(* ------------------------------- Display ------------------------------- *)

\* type Display struct{ maxX, maxY int; matrix [][]Color }, as a value.
Display == [maxX |-> maxX, maxY |-> maxY, matrix |-> matrix]

\* The result of a draw: its error, the grid it leaves, and the drawPixel
\* calls it issued, in order.
Result(err, m, pts) == [err |-> err, matrix |-> m, issued |-> pts]

\* Faulty variant of drawPixel: the colour is stored without the registry check.
drawPixelAnyColor(d, x, y, c) ==
  IF x < 0 \/ x >= d.maxX \/ y < 0 \/ y >= d.maxY
  THEN [err |-> outOfBoundsErr, matrix |-> d.matrix]
  ELSE [err |-> "nil", matrix |-> [d.matrix EXCEPT ![x][y] = c]]

\* Faulty variant of drawPixel: the colour is checked before the bounds.
drawPixelColorFirst(d, x, y, c) ==
  IF colorUnknown(c)
  THEN [err |-> colorUnknownErr, matrix |-> d.matrix]
  ELSE IF x < 0 \/ x >= d.maxX \/ y < 0 \/ y >= d.maxY
  THEN [err |-> outOfBoundsErr, matrix |-> d.matrix]
  ELSE [err |-> "nil", matrix |-> [d.matrix EXCEPT ![x][y] = c]]

\* func (d *Display) drawPixel(x, y, c).
drawPixel(d, x, y, c) ==
  IF x < 0 \/ x >= d.maxX \/ y < 0 \/ y >= d.maxY
  THEN [err |-> outOfBoundsErr, matrix |-> d.matrix]
  ELSE IF colorUnknown(c)
  THEN [err |-> colorUnknownErr, matrix |-> d.matrix]
  ELSE [err |-> "nil", matrix |-> [d.matrix EXCEPT ![x][y] = c]]

\* func (d *Display) getPixel(x, y).
getPixel(d, x, y) ==
  IF x < 0 \/ x >= d.maxX \/ y < 0 \/ y >= d.maxY
  THEN [err |-> outOfBoundsErr, colr |-> ""]
  ELSE IF colorUnknown(d.matrix[x][y])
  THEN [err |-> colorUnknownErr, colr |-> ""]
  ELSE [err |-> "nil", colr |-> d.matrix[x][y]]

\* func (d *Display) clearScreen(): every cell of the grid to "white".
clearScreen(m) == [r \in DOMAIN m |-> [c \in DOMAIN m[r] |-> "white"]]

\* func (d *Display) initialize(x, y): the grid allocated, then cleared.
initialize(x, y) ==
  [maxX |-> x, maxY |-> y,
   matrix |-> clearScreen([i \in 0 .. x - 1 |-> [j \in 0 .. y - 1 |-> ""]])]

\* func outOfBounds(p, scn).
outOfBounds(p, d) == p.x < 0 \/ p.x >= d.maxX \/ p.y < 0 \/ p.y >= d.maxY

\* The pixel line of screenShot for grid index r: "%d %d %d " for each c.
RECURSIVE pixelLine(_, _, _)
pixelLine(d, r, c) ==
  IF c >= d.maxY THEN <<>>
  ELSE colorMap[d.matrix[r][c]] \o pixelLine(d, r, c + 1)

\* Faulty variant of screenShot: one line for each y, the x index varying fastest.
RECURSIVE pixelRow(_, _, _)
pixelRow(d, r, c) ==
  IF r >= d.maxX THEN <<>>
  ELSE colorMap[d.matrix[r][c]] \o pixelRow(d, r + 1, c)

screenShotByRows(d) ==
  <<  <<"P3">>, <<d.maxX, d.maxY>>, <<255>>  >>
    \o [c \in 1 .. d.maxY |-> pixelRow(d, 0, c - 1)]

\* func (d *Display) screenShot(f), once the file is created: the lines
\* written, each line the sequence of its space-separated tokens.
screenShot(d) ==
  <<  <<"P3">>, <<d.maxX, d.maxY>>, <<255>>  >>
    \o [r \in 1 .. d.maxX |-> pixelLine(d, r - 1, 0)]

\* A fill loop: drawPixel(p, c) for the pixels pts[k..] in order; with abort,
\* the first error is returned at once (Rectangle, Triangle), without it the
\* result of drawPixel is dropped (Circle).
RECURSIVE fillLoop(_, _, _, _, _)
fillLoop(d, pts, c, k, abort) ==
  IF k > Len(pts) THEN Result("nil", d.matrix, pts)
  ELSE LET r == drawPixel(d, pts[k].x, pts[k].y, c)
       IN  IF abort /\ r.err # "nil"
           THEN Result(r.err, d.matrix, SubSeq(pts, 1, k))
           ELSE fillLoop([d EXCEPT !.matrix = r.matrix], pts, c, k + 1, abort)

(* ------------------------------ Rectangle ------------------------------ *)

\* Faulty variant of RectanglePixels: both loops closed at the upper-right corner.
RectanglePixelsClosed(r) ==
  LET w == IF r.ur.x >= r.ll.x THEN r.ur.x - r.ll.x + 1 ELSE 0
      h == IF r.ur.y >= r.ll.y THEN r.ur.y - r.ll.y + 1 ELSE 0
  IN  [k \in 1 .. w * h |-> Pt(r.ll.x + ((k - 1) \div h), r.ll.y + ((k - 1) % h))]

\* The pixels of Rectangle.draw's loops: x outer, y inner, both half-open.
RectanglePixels(r) ==
  LET w == IF r.ur.x > r.ll.x THEN r.ur.x - r.ll.x ELSE 0
      h == IF r.ur.y > r.ll.y THEN r.ur.y - r.ll.y ELSE 0
  IN  [k \in 1 .. w * h |-> Pt(r.ll.x + ((k - 1) \div h), r.ll.y + ((k - 1) % h))]

\* func (r Rectangle) draw(scn).
RectangleDraw(d, r) ==
  IF r.ll.x < 0 \/ r.ll.y < 0 \/ r.ur.x >= d.maxX \/ r.ur.y >= d.maxY
  THEN Result(outOfBoundsErr, d.matrix, <<>>)
  ELSE IF colorUnknown(r.c)
  THEN Result(colorUnknownErr, d.matrix, <<>>)
  ELSE fillLoop(d, RectanglePixels(r), r.c, 1, TRUE)

(* ------------------------------- Circle -------------------------------- *)

\* func insideCircle(center, tile, r): math.Sqrt(dx*dx+dy*dy) <= r.  Sqrt is
\* correctly rounded and monotone, so for these small integers the test is
\* dx*dx+dy*dy <= r*r when r >= 0, and false for a negative r.
insideCircle(center, tile, r) ==
  LET dx == center.x - tile.x
      dy == center.y - tile.y
  IN  r >= 0 /\ dx * dx + dy * dy <= r * r

\* The tiles Circle.draw's loops visit, y outer and x inner, that are inside.
CirclePixels(circ) ==
  LET height == circ.center.y + circ.r
      width  == circ.center.x + circ.r
      n      == IF height > 0 /\ width > 0 THEN height * width ELSE 0
      all    == [k \in 1 .. n |-> Pt((k - 1) % width, (k - 1) \div width)]
      In(p)  == insideCircle(circ.center, p, circ.r)
  IN  SelectSeq(all, In)

\* Faulty variant of Circle.draw: the colour check is missing.
CircleDrawUnchecked(d, circ) ==
  IF circ.center.x - circ.r < 0 \/ circ.center.y - circ.r < 0
  THEN Result(outOfBoundsErr, d.matrix, <<>>)
  ELSE IF circ.center.x + circ.r >= d.maxX \/ circ.center.y + circ.r >= d.maxY
  THEN Result(outOfBoundsErr, d.matrix, <<>>)
  ELSE fillLoop(d, CirclePixels(circ), circ.c, 1, FALSE)

\* func (circ Circle) draw(scn).
CircleDraw(d, circ) ==
  IF circ.center.x - circ.r < 0 \/ circ.center.y - circ.r < 0
  THEN Result(outOfBoundsErr, d.matrix, <<>>)
  ELSE IF circ.center.x + circ.r >= d.maxX \/ circ.center.y + circ.r >= d.maxY
  THEN Result(outOfBoundsErr, d.matrix, <<>>)
  ELSE IF colorUnknown(circ.c)
  THEN Result(colorUnknownErr, d.matrix, <<>>)
  ELSE fillLoop(d, CirclePixels(circ), circ.c, 1, FALSE)

(* ------------------------------ Triangle ------------------------------- *)

\* The three pairwise swaps of Triangle.draw that order the vertices by y.
sortByY(t) ==
  LET a == IF t.pt1.y < t.pt0.y THEN <<t.pt1, t.pt0, t.pt2>> ELSE <<t.pt0, t.pt1, t.pt2>>
      b == IF a[3].y < a[1].y THEN <<a[3], a[2], a[1]>> ELSE a
  IN  IF b[3].y < b[2].y THEN <<b[1], b[3], b[2]>> ELSE b

\* The horizontal spans of Triangle.draw, scan line yy and after: left[yy-y0]
\* and right[yy-y0] are indexed (a panic when out of range), then drawPixel is
\* called for each xx of the span.
RECURSIVE triangleRows(_, _, _, _, _, _, _, _)
triangleRows(d, left, right, y0, y2, yy, c, done) ==
  IF yy > y2 THEN Result("nil", d.matrix, done)
  ELSE LET k == yy - y0 + 1
       IN  IF k < 1 \/ k > Len(left) \/ k > Len(right)
           THEN Result("panic", d.matrix, done)
           ELSE LET n    == IF right[k] >= left[k] THEN right[k] - left[k] + 1 ELSE 0
                    span == [j \in 1 .. n |-> Pt(left[k] + j - 1, yy)]
                    r    == fillLoop(d, span, c, 1, TRUE)
                IN  IF r.err # "nil"
                    THEN Result(r.err, r.matrix, done \o r.issued)
                    ELSE triangleRows([d EXCEPT !.matrix = r.matrix], left, right,
                                      y0, y2, yy + 1, c, done \o r.issued)

\* The scan-line fill of Triangle.draw, after its bounds and colour checks.
triangleFill(d, t) ==
  LET v    == sortByY(t)
      x01  == interpolate(v[1].y, v[1].x, v[2].y, v[2].x)
      x12  == interpolate(v[2].y, v[2].x, v[3].y, v[3].x)
      x02  == interpolate(v[1].y, v[1].x, v[3].y, v[3].x)
  IN  IF Len(x01) < 1 THEN Result("panic", d.matrix, <<>>)
      ELSE LET x012 == SubSeq(x01, 1, Len(x01) - 1) \o x12
               mid  == Len(x012) \div 2
           IN  IF mid + 1 > Len(x02) \/ mid + 1 > Len(x012)
               THEN Result("panic", d.matrix, <<>>)
               ELSE LET swap  == x02[mid + 1] < x012[mid + 1]
                        left  == IF swap THEN x02 ELSE x012
                        right == IF swap THEN x012 ELSE x02
                    IN  triangleRows(d, left, right, v[1].y, v[3].y, v[1].y, t.c, <<>>)

\* func (t Triangle) draw(scn).
TriangleDraw(d, t) ==
  IF outOfBounds(t.pt0, d) \/ outOfBounds(t.pt1, d) \/ outOfBounds(t.pt2, d)
  THEN Result(outOfBoundsErr, d.matrix, <<>>)
  ELSE IF colorUnknown(t.c)
  THEN Result(colorUnknownErr, d.matrix, <<>>)
  ELSE triangleFill(d, t)

(* ------------------------------- inputs -------------------------------- *)

PointsOver(S) == {Pt(x, y) : x \in S, y \in S}

\* Spec: displays of MaxDim-1 or MaxDim columns and rows, coordinates one step
\* beyond each edge.
Dims == MaxDim - 1 .. MaxDim
Points == PointsOver(-1 .. MaxDim)
Radii == 0 .. MaxDim \div 2
TriPoints == PointsOver(0 .. MaxTri)
\* "pink" is not a registered colour.
PixelColors == {"red", "pink"}
ShapeColors == {"blue", "pink"}

\* FillSpec: one MaxFill x MaxFill display, coordinates one step beyond it.
FillPoints == PointsOver(-1 .. MaxFill)
FillRadii == 0 .. MaxFill \div 2
FillColors == {"red", "pink"}

(* --------------------------- state and actions ------------------------- *)

Origin == Pt(0, 0)
NoCall == [op |-> "none", p0 |-> Origin, p1 |-> Origin, p2 |-> Origin, r |-> 0, c |-> ""]
Call(op, p0, p1, p2, r, c) == [op |-> op, p0 |-> p0, p1 |-> p1, p2 |-> p2, r |-> r, c |-> c]

\* A zero Display: no call has been made; the caller is between calls.
Init ==
  /\ maxX = 0 /\ maxY = 0 /\ matrix = <<>>
  /\ call = NoCall /\ ret = "nil" /\ got = "" /\ old = Display
  /\ issued = <<>> /\ file = <<>> /\ calls = 0

\* The caller is between calls and may make one more on this grid.
Idle(limit) == call.op = "none" /\ calls < limit

\* The effect of a call that draws: the grid, the error returned, and the
\* record of the call.
Drawn(c, res) ==
  /\ call' = c
  /\ matrix' = res.matrix
  /\ ret' = res.err
  /\ issued' = res.issued
  /\ old' = Display
  /\ got' = ""
  /\ file' = <<>>
  /\ calls' = calls + 1
  /\ UNCHANGED <<maxX, maxY>>

\* d.initialize(x, y)
InitializeOver(S) ==
  /\ call.op = "none"
  /\ \E x \in S, y \in S :
       LET d == initialize(x, y)
       IN  /\ maxX' = d.maxX /\ maxY' = d.maxY /\ matrix' = d.matrix
           /\ call' = Call("initialize", Pt(x, y), Origin, Origin, 0, "")
           /\ ret' = "nil" /\ got' = "" /\ old' = Display
           /\ issued' = <<>> /\ file' = <<>> /\ calls' = 0

\* d.drawPixel(x, y, c)
DrawPixel ==
  /\ Idle(MaxCalls)
  /\ \E p \in Points, c \in PixelColors :
       LET r == drawPixel(Display, p.x, p.y, c)
       IN  Drawn(Call("drawPixel", p, Origin, Origin, 0, c),
                 Result(r.err, r.matrix, <<>>))

\* d.getPixel(x, y); a read may follow the last write.
GetPixel ==
  /\ Idle(MaxCalls + 1)
  /\ \E p \in Points :
       LET r == getPixel(Display, p.x, p.y)
       IN  /\ call' = Call("getPixel", p, Origin, Origin, 0, "")
           /\ ret' = r.err /\ got' = r.colr /\ old' = Display
           /\ issued' = <<>> /\ file' = <<>> /\ calls' = calls + 1
           /\ UNCHANGED <<maxX, maxY, matrix>>

\* d.clearScreen()
ClearScreen ==
  /\ Idle(MaxCalls)
  /\ Drawn(Call("clearScreen", Origin, Origin, Origin, 0, ""),
           Result("nil", clearScreen(matrix), <<>>))

\* d.screenShot(f): os.Create succeeds or fails; a read may follow the last
\* write.
ScreenShot ==
  /\ Idle(MaxCalls + 1)
  /\ \E created \in BOOLEAN :
       /\ call' = Call("screenShot", Origin, Origin, Origin, 0, "")
       /\ ret' = IF created THEN "nil" ELSE "ioErr"
       /\ file' = IF created THEN screenShot(Display) ELSE <<>>
       /\ got' = "" /\ old' = Display /\ issued' = <<>> /\ calls' = calls + 1
       /\ UNCHANGED <<maxX, maxY, matrix>>

\* Rectangle{ll, ur, c}.draw(d)
RectangleOver(P, C, limit) ==
  /\ Idle(limit)
  /\ \E ll \in P, ur \in P, c \in C :
       Drawn(Call("rectangle", ll, ur, Origin, 0, c),
             RectangleDraw(Display, [ll |-> ll, ur |-> ur, c |-> c]))

\* Circle{center, r, c}.draw(d)
CircleOver(P, R, C, limit) ==
  /\ Idle(limit)
  /\ \E center \in P, r \in R, c \in C :
       Drawn(Call("circle", center, Origin, Origin, r, c),
             CircleDraw(Display, [center |-> center, r |-> r, c |-> c]))

\* Triangle{pt0, pt1, pt2, c}.draw(d)
TriangleOver(P, C, limit) ==
  /\ Idle(limit)
  /\ \E pt0 \in P, pt1 \in P, pt2 \in P, c \in C :
       Drawn(Call("triangle", pt0, pt1, pt2, 0, c),
             TriangleDraw(Display, [pt0 |-> pt0, pt1 |-> pt1, pt2 |-> pt2, c |-> c]))

\* The call has returned and the caller has read its result.
Return ==
  /\ call.op # "none"
  /\ call' = NoCall /\ ret' = "nil" /\ got' = "" /\ old' = Display
  /\ issued' = <<>> /\ file' = <<>>
  /\ UNCHANGED <<maxX, maxY, matrix, calls>>

Initialize == InitializeOver(Dims)
RectangleCall == RectangleOver(Points, ShapeColors, MaxCalls)
CircleCall == CircleOver(Points, Radii, ShapeColors, MaxCalls)
TriangleCall == TriangleOver(TriPoints, ShapeColors, MaxCalls)

Next ==
  \/ Initialize
  \/ DrawPixel
  \/ GetPixel
  \/ ClearScreen
  \/ ScreenShot
  \/ RectangleCall
  \/ CircleCall
  \/ TriangleCall
  \/ Return

Spec == Init /\ [][Next]_vars

\* FillSpec: each shape drawn on a freshly initialized MaxFill x MaxFill grid.
FillInitialize == InitializeOver({MaxFill})
FillRectangle == RectangleOver(FillPoints, FillColors, 1)
FillCircle == CircleOver(FillPoints, FillRadii, FillColors, 1)
FillTriangle == TriangleOver(FillPoints, FillColors, 1)

FillNext ==
  \/ FillInitialize
  \/ FillRectangle
  \/ FillCircle
  \/ FillTriangle
  \/ Return

FillSpec == Init /\ [][FillNext]_vars

(* ------------------------------- claims -------------------------------- *)

\* The nine registered colour names.
NineColors == {"red", "green", "blue", "yellow", "orange", "purple", "brown",
               "black", "white"}

Initialized == maxX > 0 /\ maxY > 0
Xs == 0 .. maxX - 1
Ys == 0 .. maxY - 1
IsShape == call.op \in {"rectangle", "triangle", "circle"}
\* The grid was all background when the call was made.
WasFresh == \A x \in Xs, y \in Ys : old.matrix[x][y] = "white"
Unchanged == matrix = old.matrix
InGrid(p) == p.x \in Xs /\ p.y \in Ys

ThmC2 ==
  (Initialized /\ call.op = "rectangle" /\ ret = "nil") =>
    \A x \in Xs, y \in Ys :
      IF call.p0.x <= x /\ x < call.p1.x /\ call.p0.y <= y /\ y < call.p1.y
      THEN matrix[x][y] = call.c
      ELSE matrix[x][y] = old.matrix[x][y]

\* C2 witness: a successful rectangle of at least two columns and two rows
\* whose column ur.x and row ur.y lie on the grid.
WitC2 ==
  /\ Initialized /\ call.op = "rectangle" /\ ret = "nil"
  /\ call.p1.x - call.p0.x >= 2 /\ call.p1.y - call.p0.y >= 2
  /\ InGrid(call.p1)
  /\ matrix[call.p0.x][call.p0.y] = call.c

\* C3 (as claimed): Rectangle.draw returns the out-of-bounds error and leaves
\* the grid unchanged whenever ur.x >= w, ur.y >= h, or any of ll.x, ll.y,
\* ur.x, ur.y is negative.
CexC3 ==
  (/\ Initialized /\ call.op = "rectangle"
   /\ \/ call.p1.x >= maxX \/ call.p1.y >= maxY
      \/ call.p0.x < 0 \/ call.p0.y < 0 \/ call.p1.x < 0 \/ call.p1.y < 0)
  => (ret = outOfBoundsErr /\ Unchanged)

\* The bounds validation each shape's draw makes, as the specification
\* states it.
RectangleInBounds ==
  call.p0.x >= 0 /\ call.p0.y >= 0 /\ call.p1.x < maxX /\ call.p1.y < maxY
TriangleInBounds == InGrid(call.p0) /\ InGrid(call.p1) /\ InGrid(call.p2)
CircleInBounds ==
  /\ call.p0.x - call.r >= 0 /\ call.p0.y - call.r >= 0
  /\ call.p0.x + call.r < maxX /\ call.p0.y + call.r < maxY
ShapeInBounds ==
  CASE call.op = "rectangle" -> RectangleInBounds
    [] call.op = "triangle"  -> TriangleInBounds
    [] call.op = "circle"    -> CircleInBounds
    [] OTHER                 -> FALSE

\* C4 (as claimed): a shape whose colour is not registered makes draw return
\* the invalid-colour error, for every geometry, and no cell is changed.
CexC4 ==
  (Initialized /\ IsShape /\ call.c \notin NineColors) =>
    (ret = colorUnknownErr /\ Unchanged)

\* C4 (amended): a shape whose colour is not registered makes draw return an
\* error and change no cell: the invalid-colour error when its geometry
\* passes the shape's bounds validation, the out-of-bounds error otherwise.
ThmC4 ==
  (Initialized /\ IsShape /\ call.c \notin NineColors) =>
    /\ ret = (IF ShapeInBounds THEN colorUnknownErr ELSE outOfBoundsErr)
    /\ Unchanged
    /\ issued = <<>>

\* C4 witness: a circle of radius 1 with an unregistered colour, in bounds.
WitC4 ==
  /\ Initialized /\ call.op = "circle" /\ call.c \notin NineColors
  /\ call.r = 1 /\ CircleInBounds /\ ret = colorUnknownErr

\* C5 (as claimed): for every k >= 1 the right triangle (0,0), (k,0), (0,k)
\* drawn on a fresh grid wider and higher than k returns success and fills
\* exactly the cells with x + y <= k; the others stay white.
CexC5 ==
  \A k \in 1 .. MaxFill :
    (/\ Initialized /\ call.op = "triangle" /\ WasFresh
     /\ maxX > k /\ maxY > k /\ call.c \in NineColors
     /\ call.p0 = Pt(0, 0) /\ call.p1 = Pt(k, 0) /\ call.p2 = Pt(0, k))
    => /\ ret = "nil"
       /\ \A x \in Xs, y \in Ys :
            matrix[x][y] = (IF x + y <= k THEN call.c ELSE "white")

\* C6 (as claimed): after a successful Circle.draw on a fresh grid every cell
\* within distance r of the centre, the boundary included, holds the fill
\* colour and every cell farther away is white.
CexC6 ==
  (Initialized /\ call.op = "circle" /\ ret = "nil" /\ call.r >= 0 /\ WasFresh) =>
    \A x \in Xs, y \in Ys :
      LET dx == call.p0.x - x
          dy == call.p0.y - y
      IN  matrix[x][y] = (IF dx * dx + dy * dy <= call.r * call.r
                          THEN call.c ELSE "white")

\* C7: drawPixel(x,y,c) returns the out-of-bounds error when (x,y) is off the
\* grid, otherwise the invalid-colour error when c is unregistered, otherwise
\* success; on an error no cell changes, on success cell (x,y) becomes c and
\* no other cell changes; width and height are unchanged in all three cases.
ThmC7 ==
  (Initialized /\ call.op = "drawPixel") =>
    LET x == call.p0.x
        y == call.p0.y
        want == IF x < 0 \/ x >= maxX \/ y < 0 \/ y >= maxY THEN outOfBoundsErr
                ELSE IF call.c \notin NineColors THEN colorUnknownErr
                ELSE "nil"
    IN  /\ ret = want
        /\ maxX = old.maxX /\ maxY = old.maxY
        /\ ret # "nil" => Unchanged
        /\ ret = "nil" =>
             \A i \in Xs, j \in Ys :
               matrix[i][j] = (IF i = x /\ j = y THEN call.c ELSE old.matrix[i][j])

\* C7 witness: a successful drawPixel of a colour the cell did not hold.
WitC7 ==
  /\ Initialized /\ call.op = "drawPixel" /\ ret = "nil"
  /\ old.matrix[call.p0.x][call.p0.y] # call.c
  /\ matrix[call.p0.x][call.p0.y] = call.c

\* C8: screenShot, when the file is created, writes the line P3, the line
\* "w h", the line 255 and then w pixel lines; pixel line i holds h RGB
\* triplets, the j-th being the registry value of the colour of cell (i,j);
\* the grid is unchanged.
ThmC8 ==
  (Initialized /\ call.op = "screenShot" /\ ret = "nil") =>
    /\ Len(file) = 3 + maxX
    /\ file[1] = <<"P3">>
    /\ file[2] = <<maxX, maxY>>
    /\ file[3] = <<255>>
    /\ \A i \in Xs :
         /\ Len(file[4 + i]) = 3 * maxY
         /\ \A j \in Ys :
              SubSeq(file[4 + i], 3 * j + 1, 3 * j + 3) = colorMap[matrix[i][j]]
    /\ Unchanged

\* C8 witness: a screenshot of a grid with more rows than columns that holds
\* a cell that is not white.
WitC8 ==
  /\ Initialized /\ call.op = "screenShot" /\ ret = "nil"
  /\ maxX < maxY
  /\ \E x \in Xs, y \in Ys : matrix[x][y] # "white"

\* C9: when a shape's own bounds and colour validation passes, every
\* drawPixel call its fill issues targets a cell of the grid, no index into
\* an interpolated edge sequence is out of range, and draw returns success.
ThmC9 ==
  (Initialized /\ IsShape /\ ShapeInBounds /\ call.c \in NineColors) =>
    /\ ret = "nil"
    /\ \A k \in 1 .. Len(issued) : InGrid(issued[k])

\* C9 witness: a filled triangle whose three vertices differ and two of which
\* share the lowest y.
WitC9 ==
  /\ Initialized /\ call.op = "triangle" /\ ret = "nil"
  /\ call.p0.y = call.p1.y /\ call.p0.x # call.p1.x
  /\ call.p2.y > call.p0.y + 2
  /\ Len(issued) > 3

\* C10 (as claimed): the cells a Triangle.draw fills do not depend on the
\* order in which its three vertices are given.
CexC10 ==
  (Initialized /\ call.op = "triangle" /\ ret = "nil") =>
    \A q \in Permutations({1, 2, 3}) :
      LET v == <<call.p0, call.p1, call.p2>>
          t == [pt0 |-> v[q[1]], pt1 |-> v[q[2]], pt2 |-> v[q[3]], c |-> call.c]
      IN  TriangleDraw(old, t).matrix = matrix

====
